---- MODULE Spec2Model ----
(***************************************************************************)
(* Order management core: OrderBook (src/domain/order_book.py),            *)
(* PriceCalculator, TradeExecutor and the OrderManagement facade           *)
(* (src/services/*.py).                                                    *)
(*                                                                         *)
(* Python dicts are functions whose DOMAIN is the set of keys.  Order      *)
(* objects live in `heap`, keyed by an object reference; the side lists,   *)
(* the book index and the facade index hold references, so that two        *)
(* collections naming the same reference share one mutable Order, as they  *)
(* do in the program.  References are handed out in construction order.    *)
(***************************************************************************)
EXTENDS Integers, Sequences, FiniteSets, TLC

\* ---- bounds of the model ------------------------------------------------
MaxId == 2
MaxAmount == 2
MaxPrice == 2
MaxTradeAmount == 2
MaxObjs == 2

OrderIds == 1..MaxId
Symbols == {"JPM", "GOOG"}
Amounts == 1..MaxAmount
Prices == 1..MaxPrice
TradeAmounts == (-1)..MaxTradeAmount

\* ---- models.py -----------------------------------------------------------
BUY == "BUY"
SELL == "SELL"
Side == {BUY, SELL}

Order(order_id, symbol, side, amount, price) ==
    [order_id |-> order_id, symbol |-> symbol, side |-> side,
     amount |-> amount, price |-> price]

OrderFill(order_id, filled_amount, fill_price) ==
    [order_id |-> order_id, filled_amount |-> filled_amount,
     fill_price |-> fill_price]

\* ---- dict helpers ----------------------------------------------------------
EmptyDict == [k \in {} |-> 0]

DictPut(d, k, v) == [x \in (DOMAIN d) \cup {k} |-> IF x = k THEN v ELSE d[x]]

DictDel(d, k) == [x \in (DOMAIN d) \ {k} |-> d[x]]

Range(s) == {s[i] : i \in DOMAIN s}

Min(a, b) == IF a <= b THEN a ELSE b

VARIABLES
    heap,         \* reference -> Order object (the live Order objects)
    next_ref,     \* the reference the next constructed Order gets
    order_books,  \* OrderManagement._order_books: symbol -> OrderBook
    orders,       \* OrderManagement._orders: order_id -> reference
    last          \* the last facade call: its arguments and what it returned
                  \* (of a trade also the symbol and side the Trade carries)
                  \* (of a rejected addOrder: the id and the error)

VARIABLES
    trace,        \* the calls a test has made so far, each with what it returned
    codec,        \* the values of a serialization round trip, as far as it got
    threads,      \* the request handlers in flight: the frame of each thread
    forked        \* the state in which the handlers in flight were started

vars == <<heap, next_ref, order_books, orders, last, trace, codec, threads, forked>>

\* what the facade operations themselves leave alone
aside == <<trace, codec, threads, forked>>

core == <<heap, order_books, orders>>

\* ---- order_book.py ---------------------------------------------------------
\* OrderBook.__init__
OrderBook(symbol) ==
    [symbol |-> symbol, buy_orders |-> <<>>, sell_orders |-> <<>>,
     order_index |-> EmptyDict]

\* both lists keyed by -price
SortKeyNegated(side, o) == 0 - o.price

\* the SortedList keys: price for the buy list, -price for the sell list
SortKey(side, o) == IF side = BUY THEN o.price ELSE 0 - o.price

\* bisect_left in place of bisect_right
BisectLeft(h, side, s, key) ==
    Cardinality({i \in DOMAIN s : SortKey(side, h[s[i]]) < key})

\* bisect_right: the number of leading elements whose key is <= the new key
BisectRight(h, side, s, key) ==
    Cardinality({i \in DOMAIN s : SortKey(side, h[s[i]]) <= key})

\* a plain list.append in place of SortedList.add
ListAppend(h, side, s, ref) == Append(s, ref)

\* SortedList.add: insert after the elements whose key is <= the new key
SortedAdd(h, side, s, ref) ==
    LET pos == BisectRight(h, side, s, SortKey(side, h[ref]))
    IN  SubSeq(s, 1, pos) \o <<ref>> \o SubSeq(s, pos + 1, Len(s))

\* SortedList.discard: delete the first element of equal key that == the value
\* (dataclass equality: all five fields); nothing when there is none
SortedDiscard(h, side, s, ref) ==
    LET hits == {i \in DOMAIN s :
                    /\ SortKey(side, h[s[i]]) = SortKey(side, h[ref])
                    /\ h[s[i]] = h[ref]}
    IN  IF hits = {} THEN s
        ELSE LET i == CHOOSE j \in hits : \A k \in hits : j <= k
             IN  SubSeq(s, 1, i - 1) \o SubSeq(s, i + 1, Len(s))

\* add_order that forgets the identity index
Book_add_order_no_index(h, book, ref) ==
    IF h[ref].side = BUY
    THEN [book EXCEPT !.buy_orders = SortedAdd(h, BUY, @, ref)]
    ELSE [book EXCEPT !.sell_orders = SortedAdd(h, SELL, @, ref)]

\* OrderBook.add_order
Book_add_order(h, book, ref) ==
    LET sided == IF h[ref].side = BUY
                 THEN [book EXCEPT !.buy_orders = SortedAdd(h, BUY, @, ref)]
                 ELSE [book EXCEPT !.sell_orders = SortedAdd(h, SELL, @, ref)]
    IN  [sided EXCEPT !.order_index = DictPut(@, h[ref].order_id, ref)]

\* OrderBook.remove_order (the book after the call)
Book_remove_order(h, book, order_id) ==
    IF order_id \notin DOMAIN book.order_index THEN book
    ELSE LET ref == book.order_index[order_id]
             popped == [book EXCEPT !.order_index = DictDel(@, order_id)]
         IN  IF h[ref].side = BUY
             THEN [popped EXCEPT !.buy_orders = SortedDiscard(h, BUY, @, ref)]
             ELSE [popped EXCEPT !.sell_orders = SortedDiscard(h, SELL, @, ref)]

\* get_orders that hands out the opposite side's collection
Book_get_orders_other_side(book, side) ==
    IF side = BUY THEN book.sell_orders ELSE book.buy_orders

\* OrderBook.get_orders: a fresh list of the side's objects
Book_get_orders(book, side) ==
    IF side = BUY THEN book.buy_orders ELSE book.sell_orders

\* OrderBook.update_order_amount (the heap after the call)
Book_update_order_amount(h, book, order_id, new_amount) ==
    IF order_id \notin DOMAIN book.order_index THEN h
    ELSE [h EXCEPT ![book.order_index[order_id]].amount = new_amount]

\* OrderBook.get_order: the reference, or 0 for None
Book_get_order(book, order_id) ==
    IF order_id \in DOMAIN book.order_index THEN book.order_index[order_id] ELSE 0

\* ---- object lifetime ---------------------------------------------------------
\* the references some collection still holds
Reachable(books, ords) ==
    UNION {Range(books[s].buy_orders) \cup Range(books[s].sell_orders)
           \cup Range(books[s].order_index) : s \in DOMAIN books}
    \cup Range(ords)

\* an Order no collection holds any more is gone
Release(h, books, ords) == [r \in (DOMAIN h) \cap Reachable(books, ords) |-> h[r]]

\* ---- order_manager.py ------------------------------------------------------
NoCall ==
    [op |-> "init", order_id |-> 0, symbol |-> "", side |-> "", amount |-> 0,
     price |-> 0, error |-> "", result |-> 0, filled |-> 0, fills |-> <<>>,
     trade_symbol |-> "", trade_side |-> ""]

\* _get_or_create_order_book with `self._order_books = {symbol: OrderBook(symbol)}`
get_or_create_only_book(books, symbol) ==
    IF symbol \in DOMAIN books THEN books ELSE DictPut(EmptyDict, symbol, OrderBook(symbol))

\* OrderManagement._get_or_create_order_book (the dict after the call)
get_or_create_order_book(books, symbol) ==
    IF symbol \in DOMAIN books THEN books ELSE DictPut(books, symbol, OrderBook(symbol))

Init ==
    /\ heap = EmptyDict
    /\ next_ref = 1
    /\ order_books = EmptyDict
    /\ orders = EmptyDict
    /\ last = NoCall
    /\ trace = <<>>
    /\ codec = <<>>
    /\ threads = <<>>
    /\ forked = <<>>

\* OrderManagement.add_order
AddOrder(order_id, symbol, side, amount, price) ==
    IF order_id \in DOMAIN orders
    THEN /\ last' = [NoCall EXCEPT !.op = "addOrder", !.order_id = order_id,
                        !.error = "DuplicateOrder"]
         /\ UNCHANGED <<heap, next_ref, order_books, orders>>
    ELSE /\ LET ref == next_ref
                h1 == DictPut(heap, ref, Order(order_id, symbol, side, amount, price))
                books1 == get_or_create_order_book(order_books, symbol)
                books2 == [books1 EXCEPT ![symbol] = Book_add_order(h1, @, ref)]
                ords2 == DictPut(orders, order_id, ref)
            IN  /\ heap' = Release(h1, books2, ords2)
                /\ order_books' = books2
                /\ orders' = ords2
         /\ next_ref' = next_ref + 1
         /\ last' = [NoCall EXCEPT !.op = "addOrder", !.order_id = order_id,
                        !.symbol = symbol, !.side = side, !.amount = amount,
                        !.price = price]

\* remove_order without the `if order is None: return`: del raises KeyError
RemoveOrderUnchecked(order_id) ==
    /\ IF order_id \notin DOMAIN orders
       THEN /\ UNCHANGED <<heap, order_books, orders>>
            /\ last' = [NoCall EXCEPT !.op = "removeOrder", !.order_id = order_id,
                           !.error = "KeyError"]
       ELSE LET symbol == heap[orders[order_id]].symbol
                books1 == [order_books EXCEPT
                             ![symbol] = Book_remove_order(heap, @, order_id)]
                ords1 == DictDel(orders, order_id)
            IN  /\ order_books' = books1
                /\ orders' = ords1
                /\ heap' = Release(heap, books1, ords1)
                /\ last' = [NoCall EXCEPT !.op = "removeOrder", !.order_id = order_id]
    /\ UNCHANGED next_ref

\* OrderManagement.remove_order
RemoveOrder(order_id) ==
    /\ IF order_id \notin DOMAIN orders
       THEN UNCHANGED <<heap, order_books, orders>>
       ELSE LET symbol == heap[orders[order_id]].symbol
                books1 == IF symbol \in DOMAIN order_books
                          THEN [order_books EXCEPT
                                  ![symbol] = Book_remove_order(heap, @, order_id)]
                          ELSE order_books
                ords1 == DictDel(orders, order_id)
            IN  /\ order_books' = books1
                /\ orders' = ords1
                /\ heap' = Release(heap, books1, ords1)
    /\ last' = [NoCall EXCEPT !.op = "removeOrder", !.order_id = order_id]
    /\ UNCHANGED next_ref

\* ---- price_calculator.py -----------------------------------------------------
\* the loop with `if remaining == 0: break`
RECURSIVE CalcLoopUntilZero(_, _, _, _, _)
CalcLoopUntilZero(h, view, i, remaining, total_price) ==
    IF i > Len(view) \/ remaining = 0 THEN total_price
    ELSE LET consumed == Min(h[view[i]].amount, remaining)
         IN  CalcLoopUntilZero(h, view, i + 1, remaining - consumed,
                               total_price + h[view[i]].price * consumed)

\* the loop with `total_price = order.price * consumed` for `+=`
RECURSIVE CalcLoopOverwrite(_, _, _, _, _)
CalcLoopOverwrite(h, view, i, remaining, total_price) ==
    IF i > Len(view) \/ remaining <= 0 THEN total_price
    ELSE LET consumed == Min(h[view[i]].amount, remaining)
         IN  CalcLoopOverwrite(h, view, i + 1, remaining - consumed,
                               h[view[i]].price * consumed)

\* PriceCalculator.calculate: the loop from element i on
RECURSIVE CalcLoop(_, _, _, _, _)
CalcLoop(h, view, i, remaining, total_price) ==
    IF i > Len(view) \/ remaining <= 0 THEN total_price
    ELSE LET consumed == Min(h[view[i]].amount, remaining)
         IN  CalcLoop(h, view, i + 1, remaining - consumed,
                      total_price + h[view[i]].price * consumed)

\* calculate that takes every order whole
calculate_whole_orders(h, view, amount) ==
    CalcLoop(h, view, 1, amount, 0)
    + (IF amount > 0 /\ Len(view) > 0 /\ h[view[1]].amount > amount
       THEN h[view[1]].price * (h[view[1]].amount - amount) ELSE 0)

\* calculate that gives up (0) when the orders cannot cover the amount
RECURSIVE AmountOf(_, _, _)
AmountOf(h, view, i) ==
    IF i > Len(view) THEN 0 ELSE h[view[i]].amount + AmountOf(h, view, i + 1)

calculate_or_nothing(h, view, amount) ==
    IF AmountOf(h, view, 1) < amount THEN 0 ELSE CalcLoop(h, view, 1, amount, 0)

calculate(h, view, amount) == CalcLoop(h, view, 1, amount, 0)

\* ---- trade_executor.py -------------------------------------------------------
\* a test that never sees the order as used up
NeverConsumed(new_amount) == new_amount < 0

\* the test that decides between remove_order and update_order_amount
FullyConsumed(new_amount) == new_amount = 0

\* the iteration without min(): every walked order is taken whole
ExecStepWhole(st, ref) ==
    LET order == st.h[ref]
        consumed == order.amount
    IN  [h |-> st.h,
         book |-> Book_remove_order(st.h, st.book, order.order_id),
         remaining |-> st.remaining - consumed,
         order_fills |-> Append(st.order_fills,
                                OrderFill(order.order_id, consumed, order.price)),
         actual_filled |-> st.actual_filled + consumed,
         actual_price |-> st.actual_price + order.price * consumed]

\* the iteration that prices the whole resting amount of the walked order
ExecStepFullPrice(st, ref) ==
    LET order == st.h[ref]
        consumed == Min(order.amount, st.remaining)
        new_amount == order.amount - consumed
    IN  [h |-> IF FullyConsumed(new_amount) THEN st.h
               ELSE Book_update_order_amount(st.h, st.book, order.order_id, new_amount),
         book |-> IF FullyConsumed(new_amount)
                  THEN Book_remove_order(st.h, st.book, order.order_id)
                  ELSE st.book,
         remaining |-> st.remaining - consumed,
         order_fills |-> Append(st.order_fills,
                                OrderFill(order.order_id, consumed, order.price)),
         actual_filled |-> st.actual_filled + consumed,
         actual_price |-> st.actual_price + order.price * order.amount]

\* the iteration with consumed = min(order.price, remaining)
ExecStepByPrice(st, ref) ==
    LET order == st.h[ref]
        consumed == Min(order.price, st.remaining)
        new_amount == order.amount - consumed
    IN  [h |-> IF FullyConsumed(new_amount) THEN st.h
               ELSE Book_update_order_amount(st.h, st.book, order.order_id, new_amount),
         book |-> IF FullyConsumed(new_amount)
                  THEN Book_remove_order(st.h, st.book, order.order_id)
                  ELSE st.book,
         remaining |-> st.remaining - consumed,
         order_fills |-> Append(st.order_fills,
                                OrderFill(order.order_id, consumed, order.price)),
         actual_filled |-> st.actual_filled + consumed,
         actual_price |-> st.actual_price + order.price * consumed]

\* one iteration of the loop of TradeExecutor.execute, on the walked object ref
ExecStep(st, ref) ==
    LET order == st.h[ref]
        consumed == Min(order.amount, st.remaining)
        new_amount == order.amount - consumed
    IN  [h |-> IF FullyConsumed(new_amount) THEN st.h
               ELSE Book_update_order_amount(st.h, st.book, order.order_id, new_amount),
         book |-> IF FullyConsumed(new_amount)
                  THEN Book_remove_order(st.h, st.book, order.order_id)
                  ELSE st.book,
         remaining |-> st.remaining - consumed,
         order_fills |-> Append(st.order_fills,
                                OrderFill(order.order_id, consumed, order.price)),
         actual_filled |-> st.actual_filled + consumed,
         actual_price |-> st.actual_price + order.price * consumed]

\* the loop that passes over an order it cannot take whole
RECURSIVE ExecLoopWholeOnly(_, _, _)
ExecLoopWholeOnly(st, view, i) ==
    IF i > Len(view) \/ st.remaining <= 0 THEN st
    ELSE IF st.h[view[i]].amount > st.remaining
         THEN ExecLoopWholeOnly(st, view, i + 1)
         ELSE ExecLoopWholeOnly(ExecStep(st, view[i]), view, i + 1)

\* the loop without `if remaining <= 0: break`
RECURSIVE ExecLoopUnguarded(_, _, _)
ExecLoopUnguarded(st, view, i) ==
    IF i > Len(view) THEN st
    ELSE ExecLoopUnguarded(ExecStep(st, view[i]), view, i + 1)

\* the loop that stops after the first order
ExecLoopOnce(st, view, i) ==
    IF i > Len(view) \/ st.remaining <= 0 THEN st ELSE ExecStep(st, view[i])

\* the loop with `if remaining < 0: break`
RECURSIVE ExecLoopBreakBelowZero(_, _, _)
ExecLoopBreakBelowZero(st, view, i) ==
    IF i > Len(view) \/ st.remaining < 0 THEN st
    ELSE ExecLoopBreakBelowZero(ExecStep(st, view[i]), view, i + 1)

RECURSIVE ExecLoop(_, _, _)
ExecLoop(st, view, i) ==
    IF i > Len(view) \/ st.remaining <= 0 THEN st
    ELSE ExecLoop(ExecStep(st, view[i]), view, i + 1)

\* TradeExecutor.execute: the heap, the book and the Trade after the call
\* (the total_price it first takes from PriceCalculator.calculate is not used)
execute(h, book, side, amount) ==
    LET st == ExecLoop([h |-> h, book |-> book, remaining |-> amount,
                        order_fills |-> <<>>, actual_filled |-> 0,
                        actual_price |-> 0],
                       Book_get_orders(book, side), 1)
    IN  [h |-> st.h, book |-> st.book, remaining |-> st.remaining,
         order_fills |-> st.order_fills, actual_filled |-> st.actual_filled,
         actual_price |-> st.actual_price, symbol |-> book.symbol, side |-> side]

\* ---- order_manager.py (trades) -----------------------------------------------
\* calculate_price that prices by executing the trade on the book
CalculatePriceConsuming(symbol, side, amount) ==
    LET books1 == get_or_create_order_book(order_books, symbol)
        trade == execute(heap, books1[symbol], side, amount)
        books2 == [books1 EXCEPT ![symbol] = trade.book]
    IN  /\ order_books' = books2
        /\ heap' = Release(trade.h, books2, orders)
        /\ last' = [NoCall EXCEPT !.op = "calculatePrice", !.symbol = symbol,
                       !.side = side, !.amount = amount,
                       !.result = trade.actual_price]
        /\ UNCHANGED <<next_ref, orders>>

\* OrderManagement.calculate_price
CalculatePrice(symbol, side, amount) ==
    LET books1 == get_or_create_order_book(order_books, symbol)
        view == Book_get_orders(books1[symbol], side)
    IN  /\ order_books' = books1
        /\ last' = [NoCall EXCEPT !.op = "calculatePrice", !.symbol = symbol,
                       !.side = side, !.amount = amount,
                       !.result = calculate(heap, view, amount)]
        /\ UNCHANGED <<heap, next_ref, orders>>

\* the amount _update_local_order_tracking takes for what is left of the order
TrackedRemainder(h, ref, fill) == h[ref].amount - fill.filled_amount

\* OrderManagement._update_local_order_tracking: _orders after the loop
RECURSIVE update_local_order_tracking(_, _, _, _)
update_local_order_tracking(h, ords, order_fills, i) ==
    IF i > Len(order_fills) THEN ords
    ELSE LET fill == order_fills[i]
             ords1 == IF /\ fill.order_id \in DOMAIN ords
                         /\ TrackedRemainder(h, ords[fill.order_id], fill) = 0
                      THEN DictDel(ords, fill.order_id)
                      ELSE ords
         IN  update_local_order_tracking(h, ords1, order_fills, i + 1)

\* OrderManagement.place_trade
PlaceTrade(symbol, side, amount) ==
    LET books1 == get_or_create_order_book(order_books, symbol)
        trade == execute(heap, books1[symbol], side, amount)
        books2 == [books1 EXCEPT ![symbol] = trade.book]
        ords1 == update_local_order_tracking(trade.h, orders, trade.order_fills, 1)
    IN  /\ order_books' = books2
        /\ orders' = ords1
        /\ heap' = Release(trade.h, books2, ords1)
        /\ last' = [NoCall EXCEPT !.op = "placeTrade", !.symbol = symbol,
                       !.side = side, !.amount = amount,
                       !.result = trade.actual_price,
                       !.filled = trade.actual_filled,
                       !.fills = trade.order_fills,
                       !.trade_symbol = trade.symbol,
                       !.trade_side = trade.side]
        /\ UNCHANGED next_ref

\* at most MaxObjs Order objects are ever constructed
CanConstruct(order_id) == order_id \in DOMAIN orders \/ next_ref <= MaxObjs

Next ==
    \/ \E id \in OrderIds, s \in Symbols, sd \in Side, a \in Amounts, p \in Prices :
          CanConstruct(id) /\ AddOrder(id, s, sd, a, p) /\ UNCHANGED aside
    \/ \E id \in OrderIds : RemoveOrder(id) /\ UNCHANGED aside
    \/ \E s \in Symbols, sd \in Side, a \in TradeAmounts :
          CalculatePrice(s, sd, a) /\ UNCHANGED aside
    \/ \E s \in Symbols, sd \in Side, a \in TradeAmounts :
          PlaceTrade(s, sd, a) /\ UNCHANGED aside

Spec == Init /\ [][Next]_vars

\* ---- one book, more orders -------------------------------------------------
\* the facade driven on a single symbol, with as many ids as Order objects
MaxBookObjs == 3

BookSymbol == "JPM"

NextBook ==
    \/ \E id \in 1..MaxBookObjs, sd \in Side, a \in Amounts, p \in Prices :
          /\ (id \in DOMAIN orders \/ next_ref <= MaxBookObjs)
          /\ AddOrder(id, BookSymbol, sd, a, p)
          /\ UNCHANGED aside
    \/ \E id \in 1..MaxBookObjs : RemoveOrder(id) /\ UNCHANGED aside
    \/ \E sd \in Side, a \in 1..MaxTradeAmount :
          PlaceTrade(BookSymbol, sd, a) /\ UNCHANGED aside

SpecBook == Init /\ [][NextBook]_vars

\* ---- one book, larger orders ---------------------------------------------------
\* the facade driven on a single symbol with orders three trades deep: the
\* amounts are inside what the API accepts (1..10,000,000)
LargeAmounts == {1, 6}

LargeTradeAmounts == {1, 3}

NextLarge ==
    \/ \E id \in OrderIds, sd \in Side, a \in LargeAmounts, p \in Prices :
          CanConstruct(id) /\ AddOrder(id, BookSymbol, sd, a, p) /\ UNCHANGED aside
    \/ \E id \in OrderIds : RemoveOrder(id) /\ UNCHANGED aside
    \/ \E sd \in Side, a \in LargeTradeAmounts :
          PlaceTrade(BookSymbol, sd, a) /\ UNCHANGED aside

SpecLarge == Init /\ [][NextLarge]_vars

\* ---- the end-to-end test -------------------------------------------------------
\* TestOrderManagementIntegration.test_place_trade and its neighbours: two
\* addOrder calls on JPM BUY, a price, a trade, a price; the values of the test
\* and, for each, one more
ScenarioIds == {1, 4}
ScenarioAmounts == {10, 20}
ScenarioPrices == {20, 21}
ScenarioTradeAmounts == {8, 22}

\* the test records each call with what it returned
Recorded == trace' = Append(trace, last') /\ UNCHANGED <<codec, threads, forked>>

NextScenario ==
    \/ /\ Len(trace) < 2
       /\ \E id \in ScenarioIds, a \in ScenarioAmounts, p \in ScenarioPrices :
             AddOrder(id, "JPM", BUY, a, p)
       /\ Recorded
    \/ /\ Len(trace) \in {2, 4}
       /\ \E a \in ScenarioTradeAmounts : CalculatePrice("JPM", BUY, a)
       /\ Recorded
    \/ /\ Len(trace) = 3
       /\ \E a \in ScenarioTradeAmounts : PlaceTrade("JPM", BUY, a)
       /\ Recorded

SpecScenario == Init /\ [][NextScenario]_vars

\* ---- Order.to_dict / Order.from_dict ---------------------------------------------
\* Side.value: the string an enum member stands for
SideValue(side) == IF side = BUY THEN "BUY" ELSE "SELL"

\* Side(value): the member with that value
SideByValue(value) == CHOOSE side \in Side : SideValue(side) = value

\* Order.to_dict: the dict, with the side as its value string
to_dict(o) ==
    [order_id |-> o.order_id, symbol |-> o.symbol, side |-> SideValue(o.side),
     amount |-> o.amount, price |-> o.price]

\* from_dict that hands amount and price to the constructor the wrong way round
from_dict_swapped(data) ==
    Order(data.order_id, data.symbol, SideByValue(data.side), data.price, data.amount)

\* Order.from_dict
from_dict(data) ==
    Order(data.order_id, data.symbol, SideByValue(data.side), data.amount, data.price)

\* test_order_serialization_round_trip: an Order, its dict, the Order read back
NextCodec ==
    \/ /\ codec = <<>>
       /\ \E id \in 1..MaxBookObjs, s \in Symbols, sd \in Side,
             a \in Amounts, p \in Prices :
             codec' = <<Order(id, s, sd, a, p)>>
       /\ UNCHANGED <<heap, next_ref, order_books, orders, last, trace, threads, forked>>
    \/ /\ Len(codec) = 1
       /\ codec' = Append(codec, to_dict(codec[1]))
       /\ UNCHANGED <<heap, next_ref, order_books, orders, last, trace, threads, forked>>
    \/ /\ Len(codec) = 2
       /\ codec' = Append(codec, from_dict(codec[2]))
       /\ UNCHANGED <<heap, next_ref, order_books, orders, last, trace, threads, forked>>

SpecCodec == Init /\ [][NextCodec]_vars

\* ---- request handlers in threads ---------------------------------------------
\* routes.py declares the handlers with `def`, so the server runs each request
\* on a thread of its pool; the facade takes no lock, and a thread may be
\* switched between any two steps below.  Each step is a stretch of one call
\* that reads or writes the shared objects once around.
Threads == {1, 2}

\* the frame of a call: its arguments, where it stands, and its locals
NoFrame ==
    [op |-> "", pc |-> "enter", order_id |-> 0, symbol |-> "", side |-> "",
     amount |-> 0, price |-> 0,
     view |-> <<>>, i |-> 1, remaining |-> 0, consumed |-> 0,
     order_fills |-> <<>>, actual_filled |-> 0, actual_price |-> 0,
     total_price |-> 0, made |-> 0, error |-> ""]

Frame(op, order_id, symbol, side, amount, price) ==
    [NoFrame EXCEPT !.op = op, !.order_id = order_id, !.symbol = symbol,
                    !.side = side, !.amount = amount, !.price = price,
                    !.remaining = amount]

At(t, op, pc) == t \in DOMAIN threads /\ threads[t].op = op /\ threads[t].pc = pc

\* place_trade / calculate_price up to get_orders: the book is looked up (or
\* created) and the side's list copied
enter_book(t, op) ==
    /\ At(t, op, "enter")
    /\ order_books' = get_or_create_order_book(order_books, threads[t].symbol)
    /\ threads' = [threads EXCEPT
                     ![t].view = Book_get_orders(order_books'[threads[t].symbol],
                                                   threads[t].side),
                     ![t].pc = "walk"]
    /\ UNCHANGED <<heap, next_ref, orders, last, trace, codec, forked>>

place_trade_enter(t) == enter_book(t, "placeTrade")

calculate_price_enter(t) == enter_book(t, "calculatePrice")

\* TradeExecutor.execute, the head of an iteration: the break test, consumed,
\* the fill and the two sums
execute_walk(t) ==
    /\ At(t, "placeTrade", "walk")
    /\ LET f == threads[t]
       IN  IF f.i > Len(f.view) \/ f.remaining <= 0
           THEN threads' = [threads EXCEPT ![t].pc = "track"]
           ELSE LET order == heap[f.view[f.i]]
                    consumed == Min(order.amount, f.remaining)
                IN  threads' = [threads EXCEPT
                       ![t].consumed = consumed,
                       ![t].order_fills =
                           Append(@, OrderFill(order.order_id, consumed, order.price)),
                       ![t].actual_filled = @ + consumed,
                       ![t].actual_price = @ + order.price * consumed,
                       ![t].pc = "apply"]
    /\ UNCHANGED <<heap, next_ref, order_books, orders, last, trace, codec, forked>>

\* TradeExecutor.execute, the rest of the iteration: new_amount from the
\* order's amount as it is now, then remove_order or update_order_amount
execute_apply(t) ==
    /\ At(t, "placeTrade", "apply")
    /\ LET f == threads[t]
           order == heap[f.view[f.i]]
           new_amount == order.amount - f.consumed
       IN  /\ IF FullyConsumed(new_amount)
              THEN /\ order_books' = [order_books EXCEPT ![f.symbol] =
                                        Book_remove_order(heap, @, order.order_id)]
                   /\ heap' = heap
              ELSE /\ heap' = Book_update_order_amount(heap, order_books[f.symbol],
                                                       order.order_id, new_amount)
                   /\ order_books' = order_books
           /\ threads' = [threads EXCEPT ![t].remaining = @ - f.consumed,
                                         ![t].i = @ + 1, ![t].pc = "walk"]
    /\ UNCHANGED <<next_ref, orders, last, trace, codec, forked>>

\* place_trade after execute: _update_local_order_tracking, and return
place_trade_track(t) ==
    /\ At(t, "placeTrade", "track")
    /\ orders' = update_local_order_tracking(heap, orders, threads[t].order_fills, 1)
    /\ threads' = [threads EXCEPT ![t].pc = "done"]
    /\ UNCHANGED <<heap, next_ref, order_books, last, trace, codec, forked>>

\* PriceCalculator.calculate, one iteration (or the return)
calculate_walk(t) ==
    /\ At(t, "calculatePrice", "walk")
    /\ LET f == threads[t]
       IN  IF f.i > Len(f.view) \/ f.remaining <= 0
           THEN threads' = [threads EXCEPT ![t].pc = "done"]
           ELSE LET order == heap[f.view[f.i]]
                    consumed == Min(order.amount, f.remaining)
                IN  threads' = [threads EXCEPT
                       ![t].total_price = @ + order.price * consumed,
                       ![t].remaining = @ - consumed,
                       ![t].i = @ + 1]
    /\ UNCHANGED <<heap, next_ref, order_books, orders, last, trace, codec, forked>>

\* add_order, the duplicate check
add_order_check(t) ==
    /\ At(t, "addOrder", "enter")
    /\ IF threads[t].order_id \in DOMAIN orders
       THEN threads' = [threads EXCEPT ![t].error = "DuplicateOrder", ![t].pc = "done"]
       ELSE threads' = [threads EXCEPT ![t].pc = "insert"]
    /\ UNCHANGED <<heap, next_ref, order_books, orders, last, trace, codec, forked>>

\* add_order, from Order(...) to order_book.add_order(order)
add_order_insert(t) ==
    /\ At(t, "addOrder", "insert")
    /\ LET f == threads[t]
           ref == next_ref
           h1 == DictPut(heap, ref,
                         Order(f.order_id, f.symbol, f.side, f.amount, f.price))
           books1 == get_or_create_order_book(order_books, f.symbol)
       IN  /\ heap' = h1
           /\ order_books' = [books1 EXCEPT ![f.symbol] = Book_add_order(h1, @, ref)]
           /\ threads' = [threads EXCEPT ![t].made = ref, ![t].pc = "track"]
    /\ next_ref' = next_ref + 1
    /\ UNCHANGED <<orders, last, trace, codec, forked>>

\* add_order, self._orders[order_id] = order
add_order_track(t) ==
    /\ At(t, "addOrder", "track")
    /\ orders' = DictPut(orders, threads[t].order_id, threads[t].made)
    /\ threads' = [threads EXCEPT ![t].pc = "done"]
    /\ UNCHANGED <<heap, next_ref, order_books, last, trace, codec, forked>>

\* the server hands two requests that came in together to two threads
Serve(frame1, frame2) ==
    /\ forked = <<>>
    /\ forked' = <<[heap |-> heap, order_books |-> order_books, orders |-> orders]>>
    /\ threads' = <<frame1, frame2>>
    /\ UNCHANGED <<heap, next_ref, order_books, orders, last, trace, codec>>

ServeTwoTrades ==
    \E sd \in Side, a1 \in 1..MaxTradeAmount, a2 \in 1..MaxTradeAmount :
        Serve(Frame("placeTrade", 0, BookSymbol, sd, a1, 0),
              Frame("placeTrade", 0, BookSymbol, sd, a2, 0))

ServePriceAndTrade ==
    \E sd \in Side, a1 \in 1..MaxTradeAmount, a2 \in 1..MaxTradeAmount :
        Serve(Frame("calculatePrice", 0, BookSymbol, sd, a1, 0),
              Frame("placeTrade", 0, BookSymbol, sd, a2, 0))

ServeTwoAdds ==
    \E id \in OrderIds, sd \in Side, a1 \in Amounts, a2 \in Amounts, p \in Prices :
        Serve(Frame("addOrder", id, BookSymbol, sd, a1, p),
              Frame("addOrder", id, BookSymbol, sd, a2, p))

\* orders are added one call at a time; then two requests come in together
NextThreads ==
    \/ /\ forked = <<>>
       /\ next_ref <= MaxObjs
       /\ \E id \in OrderIds, sd \in Side, a \in Amounts, p \in Prices :
             AddOrder(id, BookSymbol, sd, a, p)
       /\ UNCHANGED aside
    \/ ServeTwoTrades
    \/ ServePriceAndTrade
    \/ ServeTwoAdds
    \/ \E t \in Threads :
          \/ place_trade_enter(t)
          \/ execute_walk(t)
          \/ execute_apply(t)
          \/ place_trade_track(t)
          \/ calculate_price_enter(t)
          \/ calculate_walk(t)
          \/ add_order_check(t)
          \/ add_order_insert(t)
          \/ add_order_track(t)

SpecThreads == Init /\ [][NextThreads]_vars

\* ---- a caller that keeps the list of get_orders ----------------------------------
\* frame 1 is a caller that took OrderBook.get_orders(side) and keeps the list
\* (`return list(self._buy_orders)`: a new list of the book's own Order
\* objects); frame 2 is the facade call made after it, run to its end alone

\* OrderManagement.remove_order, the whole call on a thread
remove_order_run(t) ==
    /\ At(t, "removeOrder", "enter")
    /\ LET order_id == threads[t].order_id
       IN  IF order_id \notin DOMAIN orders
           THEN UNCHANGED <<order_books, orders>>
           ELSE LET symbol == heap[orders[order_id]].symbol
                IN  /\ order_books' =
                         IF symbol \in DOMAIN order_books
                         THEN [order_books EXCEPT
                                 ![symbol] = Book_remove_order(heap, @, order_id)]
                         ELSE order_books
                    /\ orders' = DictDel(orders, order_id)
    /\ threads' = [threads EXCEPT ![t].pc = "done"]
    /\ UNCHANGED <<heap, next_ref, last, trace, codec, forked>>

\* the facade calls that may follow
LaterCalls ==
    {Frame("placeTrade", 0, BookSymbol, sd, a, 0) :
        sd \in Side, a \in 1..MaxTradeAmount}
    \cup {Frame("removeOrder", id, "", "", 0, 0) : id \in OrderIds}
    \cup {Frame("addOrder", id, BookSymbol, sd, a, p) :
            id \in OrderIds, sd \in Side, a \in Amounts, p \in Prices}

\* get_orders(side) is called and its list kept; a facade call follows
TakeOrders ==
    /\ BookSymbol \in DOMAIN order_books
    /\ \E sd \in Side, call \in LaterCalls :
          Serve([Frame("ordersFor", 0, BookSymbol, sd, 0, 0) EXCEPT
                    !.view = Book_get_orders(order_books[BookSymbol], sd),
                    !.pc = "done"],
                call)

\* the call has returned and another one is made
CallAgain ==
    /\ At(2, threads[2].op, "done")
    /\ next_ref <= MaxObjs + 1
    /\ \E call \in LaterCalls : threads' = [threads EXCEPT ![2] = call]
    /\ UNCHANGED <<heap, next_ref, order_books, orders, last, trace, codec, forked>>

NextView ==
    \/ /\ forked = <<>>
       /\ next_ref <= MaxObjs
       /\ \E id \in OrderIds, sd \in Side, a \in Amounts, p \in Prices :
             AddOrder(id, BookSymbol, sd, a, p)
       /\ UNCHANGED aside
    \/ TakeOrders
    \/ CallAgain
    \/ place_trade_enter(2)
    \/ execute_walk(2)
    \/ execute_apply(2)
    \/ place_trade_track(2)
    \/ add_order_check(2)
    \/ add_order_insert(2)
    \/ add_order_track(2)
    \/ remove_order_run(2)

SpecView == Init /\ [][NextView]_vars

\* ---- routes.py ---------------------------------------------------------------------
\* the three handlers that change the books, each with the status code of its
\* response; trace holds the response to the last request.  Request bodies
\* have passed validation (amount and price above 0, side BUY or SELL).
NoResponse == [route |-> "", status |-> 0]

Responded(route, status) ==
    /\ trace' = <<[NoResponse EXCEPT !.route = route, !.status = status]>>
    /\ UNCHANGED <<codec, threads, forked>>

\* add_order (POST /orders): status_code=201 on return; the handler has no
\* except clause and the app no exception handler, so the ValueError of
\* OrderManagement.add_order leaves the handler and the server answers 500
post_orders_status(error) == IF error = "" THEN 201 ELSE 500

PostOrders(order_id, symbol, side, amount, price) ==
    /\ AddOrder(order_id, symbol, side, amount, price)
    /\ Responded("POST /orders", post_orders_status(last'.error))

\* remove_order (DELETE /orders/{order_id})
DeleteOrder(order_id) ==
    /\ RemoveOrder(order_id)
    /\ Responded("DELETE /orders/{order_id}", 204)

\* place_trade (POST /trades)
PostTrades(symbol, side, amount) ==
    /\ PlaceTrade(symbol, side, amount)
    /\ Responded("POST /trades", 201)

NextHttp ==
    \/ \E id \in OrderIds, s \in Symbols, sd \in Side, a \in Amounts, p \in Prices :
          CanConstruct(id) /\ PostOrders(id, s, sd, a, p)
    \/ \E id \in OrderIds : DeleteOrder(id)
    \/ \E s \in Symbols, sd \in Side, a \in 1..MaxTradeAmount : PostTrades(s, sd, a)

SpecHttp == Init /\ [][NextHttp]_vars

\* ---- what the properties talk about --------------------------------------------
\* the (symbol, side, position) places at which an order rests
Resting ==
    {<<s, sd, i>> \in (DOMAIN order_books) \X Side \X (1..next_ref) :
        i <= Len(Book_get_orders(order_books[s], sd))}

RestingRef(pl) == Book_get_orders(order_books[pl[1]], pl[2])[pl[3]]

\* the references in the side collections of a book
SideRefs(book) == Range(book.buy_orders) \cup Range(book.sell_orders)

\* s without its (only) occurrence of ref
Without(s, ref) == SelectSeq(s, LAMBDA r : r # ref)

\* C1: the facade index and the books' identity indices hold the same order
\* ids, and for every id both report the same amount
C1_IndexAgreement ==
    /\ DOMAIN orders =
         UNION {DOMAIN order_books[s].order_index : s \in DOMAIN order_books}
    /\ \A s \in DOMAIN order_books : \A id \in DOMAIN order_books[s].order_index :
         heap[orders[id]].amount = heap[order_books[s].order_index[id]].amount

\* C2: no two resting orders, in any books, have the same order_id
C2_UniqueOrderIds ==
    \A p1 \in Resting : \A p2 \in Resting :
        p1 # p2 => heap[RestingRef(p1)].order_id # heap[RestingRef(p2)].order_id

\* C3: after removeOrder(id) no order with that id rests in any book: none in
\* either side collection, none in a book's identity index
C3_RemovedOrderAbsent ==
    last.op = "removeOrder" =>
        \A s \in DOMAIN order_books :
            /\ Book_get_order(order_books[s], last.order_id) = 0
            /\ \A r \in SideRefs(order_books[s]) : heap[r].order_id # last.order_id

\* C4: the BUY collection of every book is non-decreasing in price and the
\* SELL collection non-increasing
C4_SidesSorted ==
    \A s \in DOMAIN order_books :
        /\ \A i \in 1..Len(order_books[s].buy_orders) :
           \A j \in i..Len(order_books[s].buy_orders) :
              heap[order_books[s].buy_orders[i]].price
                 <= heap[order_books[s].buy_orders[j]].price
        /\ \A i \in 1..Len(order_books[s].sell_orders) :
           \A j \in i..Len(order_books[s].sell_orders) :
              heap[order_books[s].sell_orders[i]].price
                 >= heap[order_books[s].sell_orders[j]].price

\* a side on which a later-added order of another price stands before an
\* earlier-added one
C4_Witness ==
    \E pl \in Resting : \E q \in Resting :
        /\ pl[1] = q[1] /\ pl[2] = q[2] /\ pl[3] < q[3]
        /\ RestingRef(pl) > RestingRef(q)
        /\ heap[RestingRef(pl)].price # heap[RestingRef(q)].price

\* equal-price orders of a side stand in the order they were added
\* (references are handed out in the order the orders are added)
FifoAtLevel ==
    \A pl \in Resting : \A q \in Resting :
        (/\ pl[1] = q[1] /\ pl[2] = q[2] /\ pl[3] < q[3]
         /\ heap[RestingRef(pl)].price = heap[RestingRef(q)].price)
        => RestingRef(pl) < RestingRef(q)

\* the fills of the trade just made name, in order, the first orders of the
\* side's collection as it was before the trade
FillsFollowView ==
    last'.op = "placeTrade" =>
        LET view == IF last'.symbol \in DOMAIN order_books
                    THEN Book_get_orders(order_books[last'.symbol], last'.side)
                    ELSE <<>>
        IN  /\ Len(last'.fills) <= Len(view)
            /\ \A i \in 1..Len(last'.fills) :
                 /\ last'.fills[i].order_id = heap[view[i]].order_id
                 /\ last'.fills[i].fill_price = heap[view[i]].price

\* C5: equal-price orders of one side keep their insertion order in
\* ordersFor(side), and a trade fills them in that order
C5_PriceTimePriority == [] FifoAtLevel /\ [][FillsFollowView]_vars

\* a trade has filled the earliest-added of two equal-price orders of its
\* side, after the order added between the two has left the book
C5_Witness ==
    /\ last.op = "placeTrade"
    /\ Len(last.fills) = 1
    /\ DOMAIN heap = {1, 3}
    /\ \E pl \in Resting : \E q \in Resting :
         /\ pl[1] = last.symbol /\ q[1] = last.symbol
         /\ pl[2] = last.side /\ q[2] = last.side
         /\ pl[3] = 1 /\ q[3] = 2
         /\ RestingRef(pl) = 1 /\ RestingRef(q) = 3
         /\ heap[1].price = heap[3].price
         /\ heap[1].order_id = last.fills[1].order_id
         /\ heap[1].order_id # heap[3].order_id

\* C6: in every book an order is in a side collection iff the identity index
\* maps its id to that same order, and no order is in both side collections
C6_SideIndexAgree ==
    \A s \in DOMAIN order_books :
        LET book == order_books[s]
        IN  /\ \A r \in SideRefs(book) :
                 Book_get_order(book, heap[r].order_id) = r
            /\ Range(book.order_index) \subseteq SideRefs(book)
            /\ Range(book.buy_orders) \cap Range(book.sell_orders) = {}

\* C7: every resting order has amount >= 1
C7_AmountsPositive == \A pl \in Resting : heap[RestingRef(pl)].amount >= 1

\* a trade has just filled part of an order, which rests with what is left
C7_Witness ==
    /\ last.op = "placeTrade"
    /\ last.filled >= 1
    /\ \E pl \in Resting :
         /\ pl[1] = last.symbol /\ pl[2] = last.side
         /\ heap[RestingRef(pl)].order_id = last.fills[Len(last.fills)].order_id
         /\ heap[RestingRef(pl)].amount < MaxAmount

\* an order with this id is known to the facade or rests in some book
IdPresent(order_id) ==
    \/ order_id \in DOMAIN orders
    \/ \E pl \in Resting : heap[RestingRef(pl)].order_id = order_id

\* C8: addOrder with an id present anywhere in the system fails with the
\* duplicate-order error and leaves books, symbols and facade index untouched
C8_DuplicateRejected ==
    [][(last'.op = "addOrder" /\ IdPresent(last'.order_id))
        => (last'.error = "DuplicateOrder" /\ UNCHANGED core)]_vars

\* what a successful addOrder(id, symbol, side, amount, price) does
AddOrderEffect ==
    (last'.op = "addOrder" /\ last'.error = "") =>
        LET ref == next_ref
            symbol == last'.symbol
            old == get_or_create_order_book(order_books, symbol)[symbol]
            new == order_books'[symbol]
            other == IF last'.side = BUY THEN SELL ELSE BUY
        IN  /\ ref \notin DOMAIN heap
            /\ heap' = DictPut(heap, ref,
                          Order(last'.order_id, symbol, last'.side,
                                last'.amount, last'.price))
            /\ DOMAIN order_books' = (DOMAIN order_books) \cup {symbol}
            /\ \A s \in (DOMAIN order_books) \ {symbol} :
                 order_books'[s] = order_books[s]
            /\ Cardinality({i \in 1..Len(Book_get_orders(new, last'.side)) :
                              Book_get_orders(new, last'.side)[i] = ref}) = 1
            /\ Without(Book_get_orders(new, last'.side), ref)
                 = Book_get_orders(old, last'.side)
            /\ Book_get_orders(new, other) = Book_get_orders(old, other)
            /\ new.order_index = DictPut(old.order_index, last'.order_id, ref)
            /\ Book_get_order(new, last'.order_id) = ref
            /\ orders' = DictPut(orders, last'.order_id, ref)

\* C9: a successful addOrder puts exactly one new order, with the given
\* fields, into the side collection and identity index of the symbol's book
\* and into the facade index, and changes no other order
C9_AddOrderEffect == [][AddOrderEffect]_vars

\* an order has just been added beside another resting order
C9_Witness ==
    /\ last.op = "addOrder" /\ last.error = ""
    /\ Cardinality(Resting) >= 2
    /\ last.order_id \in DOMAIN orders
    /\ heap[orders[last.order_id]] =
         Order(last.order_id, last.symbol, last.side, last.amount, last.price)

\* C10: removeOrder of an id the facade does not know raises no error and
\* changes no state (so a second such call finds the same state and does the same)
C10_RemoveMissingNoOp ==
    [][(last'.op = "removeOrder" /\ last'.order_id \notin DOMAIN orders)
        => (last'.error = "" /\ UNCHANGED <<core, next_ref>>)]_vars

\* removeOrder of an id that was never added, while the one order ever added
\* is still known
C10_Witness ==
    /\ last.op = "removeOrder"
    /\ next_ref = 2
    /\ DOMAIN orders # {}
    /\ last.order_id \notin DOMAIN orders

\* ---- trades and prices -----------------------------------------------------------
\* the side collection the call just made was given: that of its symbol and
\* side in the state before the call (empty when the symbol was unseen)
CallView ==
    IF last'.symbol \in DOMAIN order_books
    THEN Book_get_orders(order_books[last'.symbol], last'.side)
    ELSE <<>>

\* the same side collection in the state after the call
CallViewAfter == Book_get_orders(order_books'[last'.symbol], last'.side)

RECURSIVE SumFilled(_, _)
SumFilled(fills, i) ==
    IF i > Len(fills) THEN 0 ELSE fills[i].filled_amount + SumFilled(fills, i + 1)

RECURSIVE SumFillValue(_, _)
SumFillValue(fills, i) ==
    IF i > Len(fills) THEN 0
    ELSE fills[i].fill_price * fills[i].filled_amount + SumFillValue(fills, i + 1)

\* the value of everything in a side collection
RECURSIVE ValueOf(_, _, _)
ValueOf(h, view, i) ==
    IF i > Len(view) THEN 0
    ELSE h[view[i]].price * h[view[i]].amount + ValueOf(h, view, i + 1)

\* C11 as stated: the fills of a trade add up to trade.amount, and trade.amount
\* is at most the requested amount
C11_FillConservation ==
    last.op = "placeTrade" =>
        /\ SumFilled(last.fills, 1) = last.filled
        /\ last.filled <= last.amount

\* C11 amended: the fills of a trade add up to trade.amount; trade.amount is at
\* most the requested amount when that is >= 0, and 0 when it is negative
C11_FillConservationAmended ==
    last.op = "placeTrade" =>
        /\ SumFilled(last.fills, 1) = last.filled
        /\ last.amount >= 0 => last.filled <= last.amount
        /\ last.amount < 0 => last.filled = 0

\* a trade over two orders that fills all it was asked for
C11_Witness ==
    /\ last.op = "placeTrade"
    /\ Len(last.fills) = 2
    /\ last.filled = last.amount

\* C12: for a request >= 0, trade.amount is the smaller of the request and the
\* total amount resting on the side before the call, and there is no error
C12_FilledIsMinOfRequestAndResting ==
    [][(last'.op = "placeTrade" /\ last'.amount >= 0)
        => /\ last'.filled = Min(last'.amount, AmountOf(heap, CallView, 1))
           /\ last'.error = ""]_vars

\* a trade that was asked for more than rested and took what there was
C12_Witness ==
    /\ last.op = "placeTrade"
    /\ last.filled >= 1
    /\ last.filled < last.amount
    /\ Book_get_orders(order_books[last.symbol], last.side) = <<>>

\* C13: an order whose whole resting amount a trade consumed is gone from its
\* side collection, from the book's identity index and from the facade index;
\* a trade for the whole resting amount of a side leaves the side empty
C13_ConsumedOrderGone ==
    [][last'.op = "placeTrade" =>
        /\ \A i \in 1..Len(last'.fills) :
             last'.fills[i].filled_amount = heap[CallView[i]].amount =>
                /\ CallView[i] \notin Range(CallViewAfter)
                /\ Book_get_order(order_books'[last'.symbol],
                                  last'.fills[i].order_id) = 0
                /\ last'.fills[i].order_id \notin DOMAIN orders'
        /\ last'.amount >= AmountOf(heap, CallView, 1) => CallViewAfter = <<>>]_vars

\* C14: a trade lowers the total amount resting on its side by trade.amount
C14_RestingDropsByFilled ==
    [][last'.op = "placeTrade" =>
        AmountOf(heap', CallViewAfter, 1)
           = AmountOf(heap, CallView, 1) - last'.filled]_vars

\* the reference price, taken from the resting orders by price level and not
\* by their place in the list: at price p a request takes what it still lacks
\* after the strictly better levels, at most what rests at p
RECURSIVE QtyAt(_, _, _, _)
QtyAt(h, view, p, i) ==
    IF i > Len(view) THEN 0
    ELSE (IF h[view[i]].price = p THEN h[view[i]].amount ELSE 0)
         + QtyAt(h, view, p, i + 1)

RECURSIVE QtyBetter(_, _, _, _, _)
QtyBetter(h, view, side, p, i) ==
    IF i > Len(view) THEN 0
    ELSE (IF (side = BUY /\ h[view[i]].price < p) \/ (side = SELL /\ h[view[i]].price > p)
          THEN h[view[i]].amount ELSE 0)
         + QtyBetter(h, view, side, p, i + 1)

LevelTake(amount, better, qty) ==
    IF amount - better <= 0 THEN 0 ELSE Min(qty, amount - better)

RECURSIVE RefPrice(_, _, _, _, _)
RefPrice(h, view, side, amount, p) ==
    IF p < 1 THEN 0
    ELSE p * LevelTake(amount, QtyBetter(h, view, side, p, 1), QtyAt(h, view, p, 1))
         + RefPrice(h, view, side, amount, p - 1)

\* the highest price resting in a side collection
RECURSIVE TopPrice(_, _, _)
TopPrice(h, view, i) ==
    IF i > Len(view) THEN 0
    ELSE LET rest == TopPrice(h, view, i + 1)
         IN  IF h[view[i]].price > rest THEN h[view[i]].price ELSE rest

\* C15: calculatePrice is the walk in price priority (lowest price first for
\* BUY, highest first for SELL) taking min(order.amount, remaining) of each order
C15_CalculateIsPriorityWalk ==
    [][last'.op = "calculatePrice" =>
        last'.result = RefPrice(heap, CallView, last'.side, last'.amount,
                                TopPrice(heap, CallView, 1))]_vars

\* a price that takes the whole first order and part of a second one of
\* another price
C15_Witness ==
    /\ last.op = "calculatePrice"
    /\ LET view == Book_get_orders(order_books[last.symbol], last.side)
       IN  /\ Len(view) = 2
           /\ heap[view[1]].price # heap[view[2]].price
           /\ last.amount > heap[view[1]].amount
           /\ last.amount < heap[view[1]].amount + heap[view[2]].amount

\* C16: calculatePrice changes no order, no amount, no side collection or
\* identity index of a book and not the facade index, and the same call made
\* again returns the same value
C16_CalculateIsReadOnly ==
    [][last'.op = "calculatePrice" =>
        /\ heap' = heap
        /\ orders' = orders
        /\ \A s \in DOMAIN order_books : order_books'[s] = order_books[s]
        /\ \A s \in (DOMAIN order_books') \ (DOMAIN order_books) :
             order_books'[s] = OrderBook(s)
        /\ calculate(heap', CallViewAfter, last'.amount) = last'.result]_vars

\* a price was taken of a side on which orders rest
C16_Witness ==
    /\ last.op = "calculatePrice"
    /\ last.result > 0
    /\ Len(Book_get_orders(order_books[last.symbol], last.side)) >= 1

\* C17: calculatePrice returns 0 and raises nothing for an amount <= 0, for a
\* symbol never seen and for an empty side
C17_CalculateZeroCases ==
    [][(/\ last'.op = "calculatePrice"
        /\ \/ last'.amount <= 0
           \/ last'.symbol \notin DOMAIN order_books
           \/ CallView = <<>>)
        => (last'.result = 0 /\ last'.error = "")]_vars

\* a negative amount was priced on a side on which an order rests
C17_Witness ==
    /\ last.op = "calculatePrice"
    /\ last.amount < 0
    /\ Book_get_orders(order_books[last.symbol], last.side) # <<>>

\* C18: for an amount of at least what rests on the side, calculatePrice is
\* the value of everything resting there, and no error
C18_CalculateAllAvailable ==
    [][(/\ last'.op = "calculatePrice"
        /\ last'.amount >= AmountOf(heap, CallView, 1))
        => (last'.result = ValueOf(heap, CallView, 1) /\ last'.error = "")]_vars

\* more was priced than rests on the side, and something rests there
C18_Witness ==
    /\ last.op = "calculatePrice"
    /\ LET view == Book_get_orders(order_books[last.symbol], last.side)
       IN  /\ view # <<>>
           /\ last.amount > AmountOf(heap, view, 1)
           /\ last.result = ValueOf(heap, view, 1)

\* C19: the total_price of a trade is what calculatePrice gives for the same
\* arguments in the state before the trade
C19_TradePriceIsCalculatedPrice ==
    [][last'.op = "placeTrade" =>
        last'.result = calculate(heap, CallView, last'.amount)]_vars

\* a trade of one fill, whose order still rests at the head of its side
C19_Witness ==
    /\ last.op = "placeTrade"
    /\ Len(last.fills) = 1
    /\ \E pl \in Resting :
         /\ pl[1] = last.symbol /\ pl[2] = last.side /\ pl[3] = 1
         /\ heap[RestingRef(pl)].order_id = last.fills[1].order_id
         /\ last.result = last.fills[1].fill_price * last.fills[1].filled_amount

\* C20: total_price is the sum of fill_price * filled_amount over the fills,
\* and each fill_price is the price of the order the book holds under the
\* fill's order_id before the trade
C20_FillPrices ==
    [][last'.op = "placeTrade" =>
        /\ last'.result = SumFillValue(last'.fills, 1)
        /\ \A i \in 1..Len(last'.fills) :
             LET ref == Book_get_order(order_books[last'.symbol],
                                       last'.fills[i].order_id)
             IN  /\ ref # 0
                 /\ heap[ref].price = last'.fills[i].fill_price]_vars
\* ---- trades: edge cases ----------------------------------------------------------
\* C21: placeTrade with a requested amount <= 0 returns amount 0, total_price 0
\* and no fills, and leaves every resting order, every book's collections and
\* identity index and the facade index as they were
C21_NonPositiveTradeIsNoOp ==
    [][(last'.op = "placeTrade" /\ last'.amount <= 0)
        => /\ last'.filled = 0 /\ last'.result = 0 /\ last'.fills = <<>>
           /\ heap' = heap
           /\ orders' = orders
           /\ \A s \in DOMAIN order_books : order_books'[s] = order_books[s]
           /\ \A s \in (DOMAIN order_books') \ (DOMAIN order_books) :
                /\ order_books'[s].buy_orders = <<>>
                /\ order_books'[s].sell_orders = <<>>
                /\ order_books'[s].order_index = EmptyDict]_vars

\* a trade of amount 0 was placed on a side on which an order rests
C21_Witness ==
    /\ last.op = "placeTrade"
    /\ last.amount = 0
    /\ last.fills = <<>>
    /\ \E r \in SideRefs(order_books[last.symbol]) : heap[r].side = last.side

\* C22: placeTrade raises nothing and returns a trade with the requested symbol
\* and side; on a symbol never seen, or one with no resting order of that
\* side, the trade has amount 0, total_price 0 and no fills
C22_PlaceTradeTotal ==
    [][last'.op = "placeTrade"
        => /\ last'.error = ""
           /\ last'.trade_symbol = last'.symbol
           /\ last'.trade_side = last'.side
           /\ (\/ last'.symbol \notin DOMAIN order_books
               \/ \A r \in SideRefs(order_books[last'.symbol]) :
                     heap[r].side # last'.side)
              => (last'.filled = 0 /\ last'.result = 0 /\ last'.fills = <<>>)]_vars

\* a trade of a positive amount came back empty from a side with no resting
\* order, while orders rest on the other side of that symbol
C22_Witness ==
    /\ last.op = "placeTrade"
    /\ last.amount > 0
    /\ last.filled = 0
    /\ last.trade_symbol = last.symbol
    /\ SideRefs(order_books[last.symbol]) # {}
    /\ \A r \in SideRefs(order_books[last.symbol]) : heap[r].side # last.side
\* the calls of the scenario, as the test makes them
ScenarioCall(op, order_id, amount, price) ==
    [op |-> op, order_id |-> order_id, symbol |-> "JPM", side |-> BUY,
     amount |-> amount, price |-> price]

ScenarioCalls ==
    << ScenarioCall("addOrder", 1, 20, 20), ScenarioCall("addOrder", 4, 10, 21),
       ScenarioCall("calculatePrice", 0, 22, 0), ScenarioCall("placeTrade", 0, 22, 0),
       ScenarioCall("calculatePrice", 0, 8, 0) >>

CallOf(l) ==
    [op |-> l.op, order_id |-> l.order_id, symbol |-> l.symbol, side |-> l.side,
     amount |-> l.amount, price |-> l.price]

OnScenario == \A i \in 1..Len(trace) : CallOf(trace[i]) = ScenarioCalls[i]

\* C23: from empty, after addOrder(1, JPM, BUY, 20, 20) and addOrder(4, JPM,
\* BUY, 10, 21), calculatePrice(JPM, BUY, 22) is 442, placeTrade(JPM, BUY, 22)
\* returns amount 22, total_price 442 and the fills (1,20,20), (4,2,21) in that
\* order, and calculatePrice(JPM, BUY, 8) is then 168
C23_EndToEndScenario ==
    OnScenario =>
        /\ Len(trace) >= 3 => trace[3].result = 442
        /\ Len(trace) >= 4 =>
             /\ trace[4].filled = 22
             /\ trace[4].result = 442
             /\ trace[4].fills = <<OrderFill(1, 20, 20), OrderFill(4, 2, 21)>>
        /\ Len(trace) >= 5 => trace[5].result = 168

\* the test has made all five calls of the scenario
C23_Witness == Len(trace) = 5 /\ OnScenario
\* ---- the life of an order id ------------------------------------------------------
\* C24: addOrder with an id is rejected exactly while an order with that id
\* rests in a book (a partly filled one too); once that order is consumed or
\* cancelled the id is accepted again, and then the only order with the id is
\* the new one, with the fields just given
C24_IdFreeExactlyWhenGone ==
    [][last'.op = "addOrder" =>
        /\ last'.error = "DuplicateOrder"
             <=> \E pl \in Resting : heap[RestingRef(pl)].order_id = last'.order_id
        /\ last'.error = "" =>
             /\ last'.order_id \in DOMAIN orders'
             /\ \A r \in DOMAIN heap' :
                  heap'[r].order_id = last'.order_id =>
                     heap'[r] = Order(last'.order_id, last'.symbol, last'.side,
                                      last'.amount, last'.price)]_vars
\* ---- calls that run together -----------------------------------------------------
\* OrderManagement.place_trade run alone on a state c: the state after it and
\* the Trade it returns
place_trade(c, symbol, side, amount) ==
    LET books1 == get_or_create_order_book(c.order_books, symbol)
        trade == execute(c.heap, books1[symbol], side, amount)
    IN  [heap |-> trade.h,
         order_books |-> [books1 EXCEPT ![symbol] = trade.book],
         orders |-> update_local_order_tracking(trade.h, c.orders,
                                                trade.order_fills, 1),
         amount |-> trade.actual_filled, total_price |-> trade.actual_price,
         order_fills |-> trade.order_fills]

\* OrderManagement.calculate_price run alone on a state c
calculate_price(c, symbol, side, amount) ==
    LET books1 == get_or_create_order_book(c.order_books, symbol)
    IN  calculate(c.heap, Book_get_orders(books1[symbol], side), amount)

Done(t) == t \in DOMAIN threads /\ threads[t].pc = "done"

\* thread t returned the Trade that c holds
ReturnedTrade(t, c) ==
    /\ threads[t].actual_filled = c.amount
    /\ threads[t].actual_price = c.total_price
    /\ threads[t].order_fills = c.order_fills

\* the two trades came out as if `first` had run alone and then `second`
AsOneAfterTheOther(first, second) ==
    LET f == threads[first]
        g == threads[second]
        c1 == place_trade(forked[1], f.symbol, f.side, f.amount)
        c2 == place_trade(c1, g.symbol, g.side, g.amount)
    IN  /\ ReturnedTrade(first, c1)
        /\ ReturnedTrade(second, c2)
        /\ heap = c2.heap /\ order_books = c2.order_books /\ orders = c2.orders

\* what thread t reports as filled of the order with this id
RECURSIVE FilledOf(_, _, _)
FilledOf(fills, order_id, i) ==
    IF i > Len(fills) THEN 0
    ELSE (IF fills[i].order_id = order_id THEN fills[i].filled_amount ELSE 0)
         + FilledOf(fills, order_id, i + 1)

\* C25: two placeTrade calls on one symbol and side that run together come out
\* as if one had run after the other, and what the two report as filled of
\* any one order is at most what that order had resting before them
C25_ConcurrentTradesSerialize ==
    (Done(1) /\ Done(2) /\ threads[1].op = "placeTrade" /\ threads[2].op = "placeTrade")
      => /\ AsOneAfterTheOther(1, 2) \/ AsOneAfterTheOther(2, 1)
         /\ \A r \in DOMAIN forked[1].heap :
              FilledOf(threads[1].order_fills, forked[1].heap[r].order_id, 1)
              + FilledOf(threads[2].order_fills, forked[1].heap[r].order_id, 1)
                 <= forked[1].heap[r].amount

\* C26: of two addOrder calls with one id that run together at most one is
\* accepted (one exactly when the id was free), the other fails with the
\* duplicate-order error, and at most one order with that id rests in the books
C26_ConcurrentAddsOneWins ==
    (Done(1) /\ Done(2) /\ threads[1].op = "addOrder" /\ threads[2].op = "addOrder")
      => LET accepted == {t \in Threads : threads[t].error = ""}
             id == threads[1].order_id
         IN  /\ Cardinality(accepted) <= 1
             /\ id \notin DOMAIN forked[1].orders => Cardinality(accepted) = 1
             /\ \A t \in Threads \ accepted : threads[t].error = "DuplicateOrder"
             /\ Cardinality({pl \in Resting : heap[RestingRef(pl)].order_id = id}) <= 1

\* C27: a calculatePrice that runs together with a placeTrade on its symbol and
\* side returns the price of the book before the trade or the price of the
\* book after the trade
C27_PriceSeesWholeTrade ==
    (Done(1) /\ threads[1].op = "calculatePrice" /\ threads[2].op = "placeTrade")
      => LET f == threads[1]
             g == threads[2]
             after == place_trade(forked[1], g.symbol, g.side, g.amount)
         IN  f.total_price \in
               {calculate_price(forked[1], f.symbol, f.side, f.amount),
                calculate_price(after, f.symbol, f.side, f.amount)}
\* ---- serialization ------------------------------------------------------------------
\* C28: Order.from_dict(Order.to_dict(o)) has the order_id, symbol, side, amount
\* and price of o
C28_OrderRoundTrip ==
    Len(codec) = 3 =>
        /\ codec[3].order_id = codec[1].order_id
        /\ codec[3].symbol = codec[1].symbol
        /\ codec[3].side = codec[1].side
        /\ codec[3].amount = codec[1].amount
        /\ codec[3].price = codec[1].price

\* a SELL order whose amount and price differ has gone through the dict and back
C28_Witness ==
    /\ Len(codec) = 3
    /\ codec[1].side = SELL
    /\ codec[1].amount # codec[1].price
    /\ codec[2].side = "SELL"
\* ---- what a trade does to the orders ---------------------------------------------
\* the orders a trade walked: the first Len(fills) of the side's collection
\* before the call
Walked == {CallView[i] : i \in 1..Len(last'.fills)}

\* C29: the order walked for a fill is removed from the book when the fill took
\* its whole resting amount, and otherwise stays with its amount reduced by
\* exactly filled_amount; every resting order that produced no fill keeps its
\* amount and stays in its book
C29_WalkedOrderMutated ==
    [][last'.op = "placeTrade" =>
        /\ \A i \in 1..Len(last'.fills) :
             LET ref == CallView[i]
                 book == order_books'[last'.symbol]
             IN  IF last'.fills[i].filled_amount = heap[ref].amount
                 THEN ref \notin SideRefs(book) \cup Range(book.order_index)
                 ELSE /\ ref \in Range(CallViewAfter)
                      /\ heap'[ref].amount
                           = heap[ref].amount - last'.fills[i].filled_amount
        /\ \A pl \in Resting :
             RestingRef(pl) \notin Walked =>
                /\ RestingRef(pl) \in Range(Book_get_orders(order_books'[pl[1]], pl[2]))
                /\ heap'[RestingRef(pl)] = heap[RestingRef(pl)]]_vars
C31_FillsPositive ==
    last.op = "placeTrade" =>
        \A i \in 1..Len(last.fills) : last.fills[i].filled_amount >= 1

\* a trade was filled in full while an order of the side still rests: the walk
\* stopped at remaining = 0 and made no fill of nothing
C31_Witness ==
    /\ last.op = "placeTrade"
    /\ Len(last.fills) >= 1
    /\ last.filled = last.amount
    /\ last.symbol \in DOMAIN order_books
    /\ Len(Book_get_orders(order_books[last.symbol], last.side)) >= 1

\* C32: within one trade no order_id appears in more than one fill
C32_OneFillPerOrderId ==
    last.op = "placeTrade" =>
        \A i \in 1..Len(last.fills) : \A j \in 1..Len(last.fills) :
            i # j => last.fills[i].order_id # last.fills[j].order_id

Remainders == 0..(MaxAmount * MaxObjs)

\* C34: for amounts A >= 0 and R >= 0, the total_price of placeTrade(symbol,
\* side, A) plus calculatePrice(symbol, side, R) right after the trade equals
\* calculatePrice(symbol, side, A + R) right before it
C34_TradeThenPriceIsPrice ==
    [][(last'.op = "placeTrade" /\ last'.amount >= 0) =>
        \A R \in Remainders :
            last'.result + calculate(heap', CallViewAfter, R)
              = calculate(heap, CallView, last'.amount + R)]_vars

\* the amounts a price is asked for: below zero up to more than can ever rest
PricedAmounts == (-1)..(MaxAmount * MaxObjs + 1)

\* C35: on a fixed book state, for every symbol and side, calculatePrice does
\* not decrease when the requested amount grows, and from the total resting
\* amount of the side on it stays at the price of that total
C35_PriceMonotoneThenFlat ==
    \A s \in DOMAIN order_books : \A sd \in Side :
        LET view == Book_get_orders(order_books[s], sd)
            total == AmountOf(heap, view, 1)
        IN  \A a \in PricedAmounts :
              /\ \A b \in PricedAmounts :
                   a <= b => calculate(heap, view, a) <= calculate(heap, view, b)
              /\ a >= total => calculate(heap, view, a) = calculate(heap, view, total)

\* a price was asked for less than what rests on a side of two orders at two
\* prices, and it is below the price of the whole side
C35_Witness ==
    /\ last.op = "calculatePrice"
    /\ LET view == Book_get_orders(order_books[last.symbol], last.side)
       IN  /\ Len(view) = 2
           /\ heap[view[1]].price # heap[view[2]].price
           /\ last.amount >= 1
           /\ last.amount < AmountOf(heap, view, 1)
           /\ last.result < calculate(heap, view, AmountOf(heap, view, 1))

\* ---- what a call leaves alone ------------------------------------------------
\* the symbol whose book the call of this step works on: the symbol argument
\* of addOrder and placeTrade, the symbol of the order removeOrder looks up
TargetSymbol ==
    IF last'.op = "removeOrder"
    THEN IF last'.order_id \in DOMAIN orders
         THEN heap[orders[last'.order_id]].symbol
         ELSE ""
    ELSE last'.symbol

\* C36: addOrder, removeOrder and placeTrade on symbol X leave every other
\* symbol's book as it was: its two side collections, its identity index and
\* the orders in them, amounts included
C36_OtherBooksUntouched ==
    [][last'.op \in {"addOrder", "removeOrder", "placeTrade"} =>
        \A s \in (DOMAIN order_books) \ {TargetSymbol} :
            /\ s \in DOMAIN order_books'
            /\ order_books'[s] = order_books[s]
            /\ \A r \in SideRefs(order_books[s]) \cup Range(order_books[s].order_index) :
                 r \in DOMAIN heap' /\ heap'[r] = heap[r]]_vars

\* a trade on one symbol has filled an order while an order rests in the book
\* of the other symbol
C36_Witness ==
    /\ last.op = "placeTrade"
    /\ Len(last.fills) >= 1
    /\ \E s \in (DOMAIN order_books) \ {last.symbol} :
         SideRefs(order_books[s]) # {}

\* the side a call does not name
Opposite(side) == IF side = BUY THEN SELL ELSE BUY

\* C37: placeTrade and calculatePrice on one side of a book leave the opposite
\* side of that book alone: the same orders rest there, in the same places and
\* with the same amounts, and no fill names one of them
C37_OppositeSideUntouched ==
    [][(last'.op \in {"placeTrade", "calculatePrice"}
          /\ last'.symbol \in DOMAIN order_books) =>
        LET before == Book_get_orders(order_books[last'.symbol], Opposite(last'.side))
            after == Book_get_orders(order_books'[last'.symbol], Opposite(last'.side))
        IN  /\ after = before
            /\ \A r \in Range(before) :
                 /\ r \in DOMAIN heap' /\ heap'[r] = heap[r]
                 /\ \A i \in 1..Len(last'.fills) :
                      last'.fills[i].order_id # heap[r].order_id]_vars

\* C38: while an order rests in the book, from the call after which it is
\* there to the call after which it is not, its order_id, symbol, side and
\* price stay as given and its amount never grows; and no call other than
\* placeTrade changes its amount
C38_RestingOrderFrame ==
    [][\A pl \in Resting :
         LET ref == RestingRef(pl)
         IN  ref \in SideRefs(order_books'[pl[1]]) =>
               /\ heap'[ref].order_id = heap[ref].order_id
               /\ heap'[ref].symbol = heap[ref].symbol
               /\ heap'[ref].side = heap[ref].side
               /\ heap'[ref].price = heap[ref].price
               /\ heap'[ref].amount <= heap[ref].amount
               /\ last'.op # "placeTrade" => heap'[ref].amount = heap[ref].amount]_vars

\* C39: the sequence ordersFor(side) returned is a snapshot: whatever addOrder,
\* removeOrder and placeTrade calls follow, it holds the orders that rested on
\* the side when it was taken, in that order, and shows for each the amount
\* (and the other fields) it had then
C39_OrdersForIsSnapshot ==
    At(1, "ordersFor", "done") =>
        LET view == threads[1].view
            taken == forked[1]
        IN  /\ view = Book_get_orders(taken.order_books[BookSymbol], threads[1].side)
            /\ \A i \in 1..Len(view) : heap[view[i]] = taken.heap[view[i]]

\* C40: POST /orders with an order id the facade already holds is answered
\* with a client-error status (4xx), and the books, the orders and the index
\* are as they were
C40_DuplicatePostIsClientError ==
    [][(/\ trace' # <<>>
        /\ trace'[1].route = "POST /orders"
        /\ last'.order_id \in DOMAIN orders) =>
          /\ trace'[1].status \in 400..499
          /\ UNCHANGED core]_vars
====
